---------------------------- MODULE Spec2Model ----------------------------
(***************************************************************************)
(* Price-elasticity engine of llm_pricing: the batch job                   *)
(* (compute_elasticities.py), the three HTTP endpoints (elasticity_api.py) *)
(* and the agent tool (main.py, ElasticityTool._run), over one shared      *)
(* SQLite store holding the orders table and the three results tables.     *)
(*                                                                         *)
(* Numbers.  Quantities and prices are non-positive values or powers of    *)
(* two, so that a logarithm is an integer number of units of ln 2; a       *)
(* regression slope is a quotient of two such logarithm sums, which does   *)
(* not depend on the unit, and is kept as an exact fraction <<num, den>>.  *)
(***************************************************************************)
EXTENDS Integers, Sequences, FiniteSets, TLC

VARIABLES
    orders,      \* the orders table, in order_id order
    tables,      \* the three results tables: committed (durable) rows
    txn,         \* rows inserted by the running batch and not yet committed
    pc,          \* position of the batch process
    idx,         \* index of the entity the current loop is at
    pti,         \* index into price_types of the inner loop
    df_orders,   \* the batch's in-memory copy of orders
    runs,        \* number of batch runs started
    failure,     \* the exception that ended the last batch run, if any
    resp,        \* the single-query call served and what it returned
    model_out    \* the weekly model run and the dataframes it built

vars == <<orders, tables, txn, pc, idx, pti, df_orders, runs, failure, resp, model_out>>

batchVars == <<tables, txn, pc, idx, pti, df_orders, runs, failure>>

-----------------------------------------------------------------------------
(* Bounds of the model *)

MaxOrders == 3
MaxRuns == 2

-----------------------------------------------------------------------------
(* Values *)

\* SQL NULL / pandas NaN in an id column
NULL == 0

\* Python None / SQL NULL in an elasticity column; a number is <<num, den>>
None == <<>>

\* (quantity, regular_price, sale_price) of a transaction
ValA == <<2, 1, 1>>
ValC == <<1, 8, 2>>
ValF == <<2, 2, 2>>
ValD == <<0, 2, 2>>    \* no quantity
ValE == <<2, 0, 2>>    \* no regular price

\* the transactions the data set is drawn from:
\* <<customer_id, product_id, (quantity, regular_price, sale_price)>>
OrderData ==
    { <<1, 1, ValA>>, <<1, 1, ValC>>, <<1, 1, ValF>>, <<1, 1, ValE>>,
      <<1, 2, ValD>>, <<2, 1, ValC>>,
      <<NULL, 2, ValA>>, <<2, NULL, ValC>> }

OrderRows ==
    { [customer_id |-> d[1], product_id |-> d[2],
       quantity |-> d[3][1], regular_price |-> d[3][2], sale_price |-> d[3][3]] :
      d \in OrderData }

RECURSIVE SeqsUpTo(_, _)
SeqsUpTo(S, n) ==
    IF n = 0 THEN {<<>>}
    ELSE LET shorter == SeqsUpTo(S, n - 1)
         IN  shorter \cup {Append(s, x) : s \in {t \in shorter : Len(t) = n - 1}, x \in S}

-----------------------------------------------------------------------------
(* Exact fractions *)

AbsInt(n) == IF n < 0 THEN -n ELSE n

RECURSIVE GCD(_, _)
GCD(a, b) == IF b = 0 THEN a ELSE GCD(b, a % b)

\* the fraction n/d in lowest terms with a positive denominator
Rat(n, d) ==
    LET g == GCD(AbsInt(n), AbsInt(d))
        s == IF d < 0 THEN -1 ELSE 1
    IN  <<(s * n) \div g, (s * d) \div g>>


AbsRat(r) == <<AbsInt(r[1]), r[2]>>

RECURSIVE SumSeq(_)
SumSeq(s) == IF s = <<>> THEN 0 ELSE Head(s) + SumSeq(Tail(s))

-----------------------------------------------------------------------------
(* The estimator: sample filter, log transform, OLS *)

\* math.log, in units of ln 2; the arguments are powers of two
RECURSIVE log(_)
log(v) == IF v = 1 THEN 0 ELSE 1 + log(v \div 2)

\* math.log raises ValueError (math domain error) outside its domain
LogDefined(v) == v > 0

\* a row mask that tests the price only
PriceOnlyValid(row, price_col) == row[price_col] > 0

\* the row mask (df["quantity"] > 0) & (df[price_col] > 0)
ValidRow(row, price_col) == row.quantity > 0 /\ row[price_col] > 0

\* a filter that also drops the first row that passes the mask
FilterSampleDropFirst(df, price_col) ==
    LET kept == SelectSeq(df, LAMBDA row : row.quantity > 0 /\ row[price_col] > 0)
    IN  IF kept = <<>> THEN kept ELSE Tail(kept)

\* df[mask].copy(): the rows that pass the mask, in their order
FilterSample(df, price_col) == SelectSeq(df, LAMBDA row : ValidRow(row, price_col))

\* the guard as len(df) < 1
NoPoints(df) == Len(df) < 1

\* the guard len(df) < 2 of the estimators
TooFewPoints(df) == Len(df) < 2

\* the slope of a fit without the intercept term
OlsSlopeThroughOrigin(log_quantity, log_price) ==
    LET n   == Len(log_price)
        Sxx == SumSeq([i \in 1..n |-> log_price[i] * log_price[i]])
        Sxy == SumSeq([i \in 1..n |-> log_price[i] * log_quantity[i]])
    IN  IF Sxx = 0 THEN <<0, 1>> ELSE Rat(Sxy, Sxx)

\* params["log_price"] of smf.ols("log_quantity ~ log_price").fit(): the
\* least-squares slope; when every log_price is the same value c the design
\* matrix has rank 1 and the default pinv fit returns the minimum-norm
\* solution, whose slope is c * mean(log_quantity) / (1 + c^2) (here in the
\* unit of log): a finite number, no exception
OlsSlope(log_quantity, log_price) ==
    LET n   == Len(log_price)
        Sx  == SumSeq(log_price)
        Sy  == SumSeq(log_quantity)
        Sxx == SumSeq([i \in 1..n |-> log_price[i] * log_price[i]])
        Sxy == SumSeq([i \in 1..n |-> log_price[i] * log_quantity[i]])
        D   == n * Sxx - Sx * Sx
        c   == log_price[1]
    IN  IF D # 0 THEN Rat(n * Sxy - Sx * Sy, D)
        ELSE Rat(c * Sy, n * (1 + c * c))

\* a logarithm of a value outside the domain of math.log
LogError(sample, price_col) ==
    \E i \in 1..Len(sample) :
        ~LogDefined(sample[i].quantity) \/ ~LogDefined(sample[i][price_col])

\* the two .apply(math.log) columns and the fit
FitLogLog(sample, price_col) ==
    OlsSlope([i \in 1..Len(sample) |-> log(sample[i].quantity)],
             [i \in 1..Len(sample) |-> log(sample[i][price_col])])

\* what an estimator call comes to: the exception that leaves it (or
\* "none"), the rows it handed to math.log, and the value it returned
Raised(exc, sample) == [raised |-> exc, logged |-> sample, value |-> None]
Returned(sample, v) == [raised |-> "none", logged |-> sample, value |-> v]

\* the batch estimator returning the slope without np.abs
compute_price_elasticity_signed(df, price_col) ==
    LET sample == FilterSample(df, price_col)
    IN  IF TooFewPoints(sample) THEN Raised("ValueError", <<>>)
        ELSE IF LogError(sample, price_col) THEN Raised("ValueError", sample)
        ELSE Returned(sample, FitLogLog(sample, price_col))

\* compute_elasticities.compute_price_elasticity: returns np.abs(slope)
compute_price_elasticity(df, price_col) ==
    LET sample == FilterSample(df, price_col)
    IN  IF TooFewPoints(sample) THEN Raised("ValueError", <<>>)
        ELSE IF LogError(sample, price_col) THEN Raised("ValueError", sample)
        ELSE Returned(sample, AbsRat(FitLogLog(sample, price_col)))

\* the endpoint estimator returning the absolute value of the slope
api_compute_price_elasticity_abs(df, price_col) ==
    LET sample == FilterSample(df, price_col)
    IN  IF TooFewPoints(sample) THEN Raised("ValueError", <<>>)
        ELSE IF LogError(sample, price_col) THEN Raised("ValueError", sample)
        ELSE Returned(sample, AbsRat(FitLogLog(sample, price_col)))

\* elasticity_api.compute_price_elasticity: returns the slope
api_compute_price_elasticity(df, price_col) ==
    LET sample == FilterSample(df, price_col)
    IN  IF TooFewPoints(sample) THEN Raised("ValueError", <<>>)
        ELSE IF LogError(sample, price_col) THEN Raised("ValueError", sample)
        ELSE Returned(sample, FitLogLog(sample, price_col))

-----------------------------------------------------------------------------
(* The batch: compute_elasticities() *)

price_types == <<"regular_price", "sale_price">>

\* pandas ==, SQL =: never true of a missing value
IdEq(a, b) == a # NULL /\ b # NULL /\ a = b

\* the elements of a sequence, each once, in order of first appearance
RECURSIVE Unique(_)
Unique(s) ==
    IF s = <<>> THEN <<>>
    ELSE LET rest == Unique(SubSeq(s, 1, Len(s) - 1))
             x    == s[Len(s)]
         IN  IF \E i \in 1..Len(rest) : rest[i] = x THEN rest ELSE Append(rest, x)

\* the product ids without .unique()
product_ids_not_unique(df) ==
    SelectSeq([i \in 1..Len(df) |-> df[i].product_id], LAMBDA v : v # NULL)

\* df_orders["product_id"].dropna().unique().tolist()
product_ids(df) ==
    Unique(SelectSeq([i \in 1..Len(df) |-> df[i].product_id], LAMBDA v : v # NULL))

\* df_orders["customer_id"].dropna().unique().tolist()
customer_ids(df) ==
    Unique(SelectSeq([i \in 1..Len(df) |-> df[i].customer_id], LAMBDA v : v # NULL))

\* every customer id paired with every product id
df_cust_prod_cross(df) ==
    LET cs == Unique([i \in 1..Len(df) |-> df[i].customer_id])
        ps == Unique([i \in 1..Len(df) |-> df[i].product_id])
    IN  [k \in 1..(Len(cs) * Len(ps)) |->
            <<cs[((k - 1) \div Len(ps)) + 1], ps[((k - 1) % Len(ps)) + 1]>>]

\* df_orders[["customer_id","product_id"]].drop_duplicates(): missing values
\* are kept and compare equal to each other
df_cust_prod(df) == Unique([i \in 1..Len(df) |-> <<df[i].customer_id, df[i].product_id>>])

\* df_orders[df_orders["product_id"] == pid]
df_prod(df, pid) == SelectSeq(df, LAMBDA r : IdEq(r.product_id, pid))

\* df_orders[df_orders["customer_id"] == cid]
df_cust(df, cid) == SelectSeq(df, LAMBDA r : IdEq(r.customer_id, cid))

\* df_orders[(df_orders["customer_id"] == cid) & (df_orders["product_id"] == pid)]
df_sub(df, cid, pid) ==
    SelectSeq(df, LAMBDA r : IdEq(r.customer_id, cid) /\ IdEq(r.product_id, pid))

\* a loop body without the try / except
NoExcept(e) == [raised |-> e.raised, value |-> e.value]

\* try: ... except ValueError: elasticity_val = None
\* any other exception leaves the loop
ExceptValueError(e) ==
    IF e.raised = "ValueError" THEN [raised |-> "none", value |-> None]
    ELSE [raised |-> e.raised, value |-> e.value]

\* a loop body whose estimator filters the entity's rows in place, so that
\* the second price type sees what the first left
TryElasticityFilteredInPlace(df, pt) ==
    ExceptValueError(compute_price_elasticity(
        IF pt = price_types[1] THEN df ELSE FilterSample(df, price_types[1]), pt))

\* the try block of the product loop and of the pair loop
TryElasticity(df, pt) == ExceptValueError(compute_price_elasticity(df, pt))

\* the try block of the customer loop: np.abs(compute_price_elasticity(...))
TryElasticityCustomer(df, pt) ==
    LET e == compute_price_elasticity(df, pt)
    IN  ExceptValueError(IF e.raised = "none" THEN [e EXCEPT !.value = AbsRat(e.value)] ELSE e)

EmptyTables ==
    [computed_product_elasticities  |-> <<>>,
     computed_customer_elasticities |-> <<>>,
     computed_c_p_elasticities      |-> <<>>]

\* the iterable of each of the three loops
LoopItems(loop, df) ==
    CASE loop = "products"  -> product_ids(df)
      [] loop = "customers" -> customer_ids(df)
      [] loop = "pairs"     -> df_cust_prod(df)

AfterLoop(loop) ==
    CASE loop = "products"  -> "customers"
      [] loop = "customers" -> "pairs"
      [] loop = "pairs"     -> "commit"

\* where control is once the loops before `loop` are over: the first loop
\* from `loop` on that has an item, or the final commit
RECURSIVE EnterLoop(_, _)
EnterLoop(loop, df) ==
    IF loop = "commit" THEN "commit"
    ELSE IF LoopItems(loop, df) # <<>> THEN loop
    ELSE EnterLoop(AfterLoop(loop), df)

\* INTEGER PRIMARY KEY AUTOINCREMENT
NextId(table) == Len(tables[table]) + Len(txn[table]) + 1

\* an exit that commits the rows inserted so far
AbortCommitting(exc) ==
    /\ pc' = "aborted"
    /\ failure' = exc
    /\ tables' = [t \in DOMAIN tables |-> tables[t] \o txn[t]]
    /\ txn' = EmptyTables
    /\ idx' = 1
    /\ pti' = 1
    /\ df_orders' = <<>>
    /\ UNCHANGED <<orders, runs, resp, model_out>>

\* the process dies on an uncaught exception: the open transaction is lost
Abort(exc) ==
    /\ pc' = "aborted"
    /\ failure' = exc
    /\ txn' = EmptyTables
    /\ idx' = 1
    /\ pti' = 1
    /\ df_orders' = <<>>
    /\ UNCHANGED <<orders, tables, runs, resp, model_out>>

\* cursor.execute("INSERT ...") of the current loop, then the next iteration
InsertAndAdvance(table, row) ==
    /\ txn' = [txn EXCEPT ![table] = Append(@, row)]
    /\ IF pti < Len(price_types)
       THEN /\ pti' = pti + 1
            /\ UNCHANGED <<idx, pc>>
       ELSE /\ pti' = 1
            /\ IF idx < Len(LoopItems(pc, df_orders))
               THEN idx' = idx + 1 /\ UNCHANGED pc
               ELSE idx' = 1 /\ pc' = EnterLoop(AfterLoop(pc), df_orders)
    /\ UNCHANGED <<orders, tables, df_orders, runs, failure, resp, model_out>>

\* lines 83-97: read orders, enumerate the ids, create the results tables
\* if missing, open the connection the rows are inserted through
BatchStart(ok) ==
    /\ pc \in {"idle", "done", "aborted"}
    /\ runs < MaxRuns
    /\ runs' = runs + 1
    /\ IF ok
       THEN /\ df_orders' = orders
            /\ pc' = EnterLoop("products", orders)
            /\ failure' = "none"
            /\ UNCHANGED <<orders, tables, txn, idx, pti, resp, model_out>>
       ELSE /\ pc' = "aborted"
            /\ failure' = "StoreUnavailable"
            /\ UNCHANGED <<orders, tables, txn, idx, pti, df_orders, resp, model_out>>

\* one iteration of the inner loop of lines 103-118
ProductStep(ok) ==
    /\ pc = "products"
    /\ LET pid == product_ids(df_orders)[idx]
           pt  == price_types[pti]
           e   == TryElasticity(df_prod(df_orders, pid), pt)
       IN  IF e.raised # "none" THEN Abort(e.raised)
           ELSE IF ~ok THEN Abort("StoreUnavailable")
           ELSE InsertAndAdvance("computed_product_elasticities",
                    [id |-> NextId("computed_product_elasticities"),
                     product_id |-> pid, price_type |-> pt, elasticity |-> e.value])

\* one iteration of the inner loop of lines 123-136
CustomerStep(ok) ==
    /\ pc = "customers"
    /\ LET cid == customer_ids(df_orders)[idx]
           pt  == price_types[pti]
           e   == TryElasticityCustomer(df_cust(df_orders, cid), pt)
       IN  IF e.raised # "none" THEN Abort(e.raised)
           ELSE IF ~ok THEN Abort("StoreUnavailable")
           ELSE InsertAndAdvance("computed_customer_elasticities",
                    [id |-> NextId("computed_customer_elasticities"),
                     customer_id |-> cid, price_type |-> pt, elasticity |-> e.value])

\* one iteration of the inner loop of lines 146-163
PairStep(ok) ==
    /\ pc = "pairs"
    /\ LET cid == df_cust_prod(df_orders)[idx][1]
           pid == df_cust_prod(df_orders)[idx][2]
           pt  == price_types[pti]
           e   == TryElasticity(df_sub(df_orders, cid, pid), pt)
       IN  IF e.raised # "none" THEN Abort(e.raised)
           ELSE IF ~ok THEN Abort("StoreUnavailable")
           ELSE InsertAndAdvance("computed_c_p_elasticities",
                    [id |-> NextId("computed_c_p_elasticities"),
                     customer_id |-> cid, product_id |-> pid,
                     price_type |-> pt, elasticity |-> e.value])

\* a commit into tables that were cleared when the run began
CommitReplacing(ok) ==
    /\ pc = "commit"
    /\ IF ~ok THEN Abort("StoreUnavailable")
       ELSE /\ tables' = txn
            /\ txn' = EmptyTables
            /\ pc' = "done"
            /\ df_orders' = <<>>
            /\ UNCHANGED <<orders, idx, pti, runs, failure, resp, model_out>>

\* a commit issued after DELETE FROM orders
CommitClearingOrders(ok) ==
    /\ pc = "commit"
    /\ IF ~ok THEN Abort("StoreUnavailable")
       ELSE /\ tables' = [t \in DOMAIN tables |-> tables[t] \o txn[t]]
            /\ txn' = EmptyTables
            /\ pc' = "done"
            /\ df_orders' = <<>>
            /\ orders' = <<>>
            /\ UNCHANGED <<idx, pti, runs, failure, resp, model_out>>

\* lines 168-169: conn.commit(); conn.close()
Commit(ok) ==
    /\ pc = "commit"
    /\ IF ~ok THEN Abort("StoreUnavailable")
       ELSE /\ tables' = [t \in DOMAIN tables |-> tables[t] \o txn[t]]
            /\ txn' = EmptyTables
            /\ pc' = "done"
            /\ df_orders' = <<>>
            /\ UNCHANGED <<orders, idx, pti, runs, failure, resp, model_out>>

-----------------------------------------------------------------------------
(* The single-query operations: the HTTP endpoints and the agent tool *)

\* ids a caller passes; the tool's ids are optional (NULL: argument omitted)
IdArgs == {1, 2}
OptionalIdArgs == {NULL, 1, 2}
PriceTypeArgs == {"regular", "sale", "discount"}

\* a check that lets 'discount' through
InvalidPriceTypeLax(price_type) == price_type \notin {"regular", "sale", "discount"}

\* price_type not in ["regular", "sale"]
InvalidPriceType(price_type) == price_type \notin {"regular", "sale"}

\* a query path that reads the sale price whatever the price type
PriceColAlwaysSale(price_type) == "sale_price"

\* price_col = "regular_price" if price_type == "regular" else "sale_price"
PriceCol(price_type) == IF price_type = "regular" THEN "regular_price" ELSE "sale_price"

\* a query that joins its conditions with OR
SelectOrdersUnion(store, product_id, customer_id, price_col) ==
    LET hit == SelectSeq(store, LAMBDA r :
                   \/ (product_id # NULL /\ r.product_id = product_id)
                   \/ (customer_id # NULL /\ r.customer_id = customer_id))
    IN  [i \in 1..Len(hit) |-> [quantity |-> hit[i].quantity, price |-> hit[i][price_col]]]

\* SELECT quantity, <price_col> AS price FROM orders [WHERE ...]: the rows
\* of the store that match the ids given (an omitted id adds no condition)
SelectOrders(store, product_id, customer_id, price_col) ==
    LET hit == SelectSeq(store, LAMBDA r :
                   /\ (product_id # NULL => IdEq(r.product_id, product_id))
                   /\ (customer_id # NULL => IdEq(r.customer_id, customer_id)))
    IN  [i \in 1..Len(hit) |-> [quantity |-> hit[i].quantity, price |-> hit[i][price_col]]]

\* what a call comes to.  status: the HTTP status (0 for the tool, which
\* returns a text); detail: the error text; reads: the queries issued to the
\* store; the echoed request and the value are those of the returned body
Response(op, args, reads, status, detail, echo, elasticity, logged) ==
    [op |-> op, args |-> args, reads |-> reads, status |-> status, detail |-> detail,
     echo |-> echo, elasticity |-> elasticity, logged |-> logged]

Args(product_id, customer_id, price_type) ==
    [product_id |-> product_id, customer_id |-> customer_id, price_type |-> price_type]

NoEcho == Args(NULL, NULL, "")

\* the body of the three endpoints after the price_type check: fetch,
\* estimate, HTTPException(400, str(e)) on ValueError, else the JSON body
Endpoint(op, store, args, ok) ==
    IF InvalidPriceType(args.price_type)
    THEN Response(op, args, 0, 400, "price_type must be 'regular' or 'sale'", NoEcho, None, <<>>)
    ELSE IF ~ok
    THEN Response(op, args, 1, 500, "StoreUnavailable", NoEcho, None, <<>>)
    ELSE LET df == SelectOrders(store, args.product_id, args.customer_id,
                                PriceCol(args.price_type))
             e  == api_compute_price_elasticity(df, "price")
         IN  IF e.raised = "ValueError"
             THEN Response(op, args, 1, 400,
                      "Not enough valid data points to run the regression (need at least 2).",
                      NoEcho, None, e.logged)
             ELSE Response(op, args, 1, 200, "", args, e.value, e.logged)

\* GET /elasticity/product
get_product_elasticity(store, product_id, price_type, ok) ==
    Endpoint("product_elasticity", store, Args(product_id, NULL, price_type), ok)

\* GET /elasticity/customer
get_customer_elasticity(store, customer_id, price_type, ok) ==
    Endpoint("customer_elasticity", store, Args(NULL, customer_id, price_type), ok)

\* GET /elasticity/customer_product
get_customer_product_elasticity(store, customer_id, product_id, price_type, ok) ==
    Endpoint("customer_product_elasticity", store, Args(product_id, customer_id, price_type), ok)

\* round(n/d) to an integer, ties to even
RoundHalfEven(n, d) ==
    LET q == n \div d
        r == n - q * d
    IN  IF 2 * r < d THEN q
        ELSE IF 2 * r > d THEN q + 1
        ELSE IF q % 2 = 0 THEN q ELSE q + 1

\* f"{elasticity:.4f}": the number the text shows
Format4f(v) == Rat(RoundHalfEven(v[1] * 10000, v[2]), 10000)

\* ElasticityTool._run
ToolRun(store, product_id, customer_id, price_type, ok) ==
    LET args == Args(product_id, customer_id, price_type)
    IN  IF InvalidPriceType(price_type)
        THEN Response("tool", args, 0, 0, "Error: price_type must be 'regular' or 'sale'.",
                      NoEcho, None, <<>>)
        ELSE IF ~ok
        THEN Response("tool", args, 1, 500, "StoreUnavailable", NoEcho, None, <<>>)
        ELSE LET rows   == SelectOrders(store, product_id, customer_id, PriceCol(price_type))
                 sample == FilterSample(rows, "price")
             IN  IF rows = <<>>
                 THEN Response("tool", args, 1, 0,
                          "No matching data found to compute elasticity.", NoEcho, None, <<>>)
                 ELSE IF TooFewPoints(sample)
                 THEN Response("tool", args, 1, 0,
                          "Not enough data points to compute elasticity (need >= 2).",
                          NoEcho, None, <<>>)
                 ELSE IF LogError(sample, "price")
                 THEN Response("tool", args, 1, 500, "ValueError", NoEcho, None, sample)
                 ELSE Response("tool", args, 1, 0, "", args,
                          Format4f(FitLogLog(sample, "price")), sample)

\* no request served yet
NoCall == Response("none", NoEcho, 0, 0, "", NoEcho, None, <<>>)

CallProduct ==
    /\ resp = NoCall
    /\ \E product_id \in IdArgs, price_type \in PriceTypeArgs, ok \in BOOLEAN :
           resp' = get_product_elasticity(orders, product_id, price_type, ok)
    /\ UNCHANGED <<orders, batchVars, model_out>>

CallCustomer ==
    /\ resp = NoCall
    /\ \E customer_id \in IdArgs, price_type \in PriceTypeArgs, ok \in BOOLEAN :
           resp' = get_customer_elasticity(orders, customer_id, price_type, ok)
    /\ UNCHANGED <<orders, batchVars, model_out>>

CallCustomerProduct ==
    /\ resp = NoCall
    /\ \E customer_id \in IdArgs, product_id \in IdArgs,
          price_type \in PriceTypeArgs, ok \in BOOLEAN :
           resp' = get_customer_product_elasticity(orders, customer_id, product_id,
                                                   price_type, ok)
    /\ UNCHANGED <<orders, batchVars, model_out>>

CallTool ==
    /\ resp = NoCall
    /\ \E product_id \in OptionalIdArgs, customer_id \in OptionalIdArgs,
          price_type \in PriceTypeArgs, ok \in BOOLEAN :
           resp' = ToolRun(orders, product_id, customer_id, price_type, ok)
    /\ UNCHANGED <<orders, batchVars, model_out>>

-----------------------------------------------------------------------------
(* The weekly models: product_elasticity, costumer_elasticity and          *)
(* customer_product_elasticity.  A timestamp is a day number, day 0 being  *)
(* a Monday; a mean price is an exact fraction <<num, den>>.               *)

\* the transactions the weekly data set is drawn from:
\* <<customer_id, product_id, timestamp, quantity, sale_price>>
WeeklyOrderData ==
    { <<1, 1, 0, 2, 2>>,
      <<1, 1, 6, -1, 2>>,      \* a return, in the week of day 0
      <<1, 1, 6, 2, 0>>,       \* no price, in the week of day 0
      <<1, 1, 7, 1, 4>>,       \* the week after
      <<1, 1, 7, 0, 4>>,       \* no quantity
      <<2, 1, 0, 2, 2>>,
      <<1, 2, 7, 1, 1>>,
      <<NULL, 1, 0, 2, 2>> }

WeeklyOrderRows ==
    { [customer_id |-> d[1], product_id |-> d[2], timestamp |-> d[3],
       quantity |-> d[4], sale_price |-> d[5]] : d \in WeeklyOrderData }

\* orders_df['timestamp'].dt.to_period('W'): the Monday-to-Sunday week
to_period_W(timestamp) == timestamp \div 7

RECURSIVE IsPowerOfTwo(_)
IsPowerOfTwo(n) == n = 1 \/ (n > 1 /\ n % 2 = 0 /\ IsPowerOfTwo(n \div 2))

\* np.log of a positive fraction, in units of ln 2
np_log(f) == log(f[1]) - log(f[2])

\* the order pandas sorts group keys in
RECURSIVE KeyLess(_, _)
KeyLess(a, b) ==
    /\ a # <<>>
    /\ \/ Head(a) < Head(b)
       \/ (Head(a) = Head(b) /\ KeyLess(Tail(a), Tail(b)))

RECURSIVE SortKeys(_)
SortKeys(S) ==
    IF S = {} THEN <<>>
    ELSE LET least == CHOOSE a \in S : \A b \in S : a = b \/ KeyLess(a, b)
         IN  <<least>> \o SortKeys(S \ {least})

\* the values of the key columns of a row
KeyOf(row, by) == [i \in 1..Len(by) |-> row[by[i]]]

\* groupby(by + ['week'], as_index=False).agg({'quantity': 'sum',
\* 'sale_price': 'mean'}) over the rows given: one row per group, in key
\* order; rows with a missing key are in no group
GroupWeeks(df, by) ==
    LET keyed  == SelectSeq(df, LAMBDA r : \A i \in 1..Len(by) : r[by[i]] # NULL)
        groups == SortKeys({Append(KeyOf(keyed[i], by), to_period_W(keyed[i].timestamp)) :
                            i \in 1..Len(keyed)})
        rowsOf(g) == SelectSeq(keyed, LAMBDA r :
                         Append(KeyOf(r, by), to_period_W(r.timestamp)) = g)
    IN  [k \in 1..Len(groups) |->
            LET rs == rowsOf(groups[k])
            IN  [key        |-> SubSeq(groups[k], 1, Len(by)),
                 week       |-> groups[k][Len(by) + 1],
                 quantity   |-> SumSeq([i \in 1..Len(rs) |-> rs[i].quantity]),
                 sale_price |-> Rat(SumSeq([i \in 1..Len(rs) |-> rs[i].sale_price]),
                                    Len(rs))]]

\* an aggregation of the valid transactions only
agg_of_valid_rows(df, by) ==
    GroupWeeks(SelectSeq(df, LAMBDA r : r.quantity > 0 /\ r.sale_price > 0), by)

\* product_agg / cust_agg / cp_agg as built by the groupby
agg(df, by) == GroupWeeks(df, by)

\* agg[(agg['quantity'] > 0) & (agg['sale_price'] > 0)].copy()
FilterAgg(rows) == SelectSeq(rows, LAMBDA r : r.quantity > 0 /\ r.sale_price[1] > 0)

\* params['ln_price'] of sm.OLS(y, sm.add_constant(group['ln_price'])).fit().
\* add_constant (has_constant='skip') adds no constant column when ln_price
\* is one non-zero value c in every row: the fit then has no intercept and
\* its slope is mean(ln_qty) / c.  When every ln_price is 0 the constant is
\* added and the minimum-norm solution of the pinv fit has slope 0.
WeeklyOlsSlope(ln_qty, ln_price) ==
    LET n   == Len(ln_price)
        Sx  == SumSeq(ln_price)
        Sy  == SumSeq(ln_qty)
        Sxx == SumSeq([i \in 1..n |-> ln_price[i] * ln_price[i]])
        Sxy == SumSeq([i \in 1..n |-> ln_price[i] * ln_qty[i]])
        D   == n * Sxx - Sx * Sx
        c   == ln_price[1]
    IN  IF D # 0 THEN Rat(n * Sxy - Sx * Sy, D)
        ELSE IF c # 0 THEN Rat(Sy, n * c)
        ELSE Rat(0, n)

\* the loop over agg.groupby(by): one result per entity that has a row left,
\* in key order; None with fewer than 2 rows
GroupResults(sample, by) ==
    LET entities == SortKeys({sample[i].key : i \in 1..Len(sample)})
    IN  [k \in 1..Len(entities) |->
            LET group == SelectSeq(sample, LAMBDA r : r.key = entities[k])
            IN  [key |-> entities[k],
                 elasticity |->
                     IF Len(group) < 2 THEN None
                     ELSE WeeklyOlsSlope(
                              [i \in 1..Len(group) |-> log(group[i].quantity)],
                              [i \in 1..Len(group) |-> np_log(group[i].sale_price)])]]

\* what a run of a model comes to: the aggregate it built, the rows it took
\* logarithms of, and the dataframe it returned
ModelRun(name, by, df, ok) ==
    IF ~ok
    THEN [model |-> name, by |-> by, failure |-> "StoreUnavailable",
          agg |-> <<>>, sample |-> <<>>, results |-> <<>>]
    ELSE [model |-> name, by |-> by, failure |-> "none",
          agg |-> agg(df, by),
          sample |-> FilterAgg(agg(df, by)),
          results |-> GroupResults(FilterAgg(agg(df, by)), by)]

\* no model run yet
NoModelRun == [model |-> "none", by |-> <<>>, failure |-> "none",
               agg |-> <<>>, sample |-> <<>>, results |-> <<>>]

\* src/models/product_elasticity.py
RunProductModel ==
    /\ model_out = NoModelRun
    /\ \E ok \in BOOLEAN :
           model_out' = ModelRun("product_elasticity", <<"product_id">>, orders, ok)
    /\ UNCHANGED <<orders, batchVars, resp>>

\* src/dbt/models/costumer_elasticity.py
RunCustomerModel ==
    /\ model_out = NoModelRun
    /\ \E ok \in BOOLEAN :
           model_out' = ModelRun("costumer_elasticity", <<"customer_id">>, orders, ok)
    /\ UNCHANGED <<orders, batchVars, resp>>

\* src/models/customer_product_elasticity.py
RunCustomerProductModel ==
    /\ model_out = NoModelRun
    /\ \E ok \in BOOLEAN :
           model_out' = ModelRun("customer_product_elasticity",
                                 <<"customer_id", "product_id">>, orders, ok)
    /\ UNCHANGED <<orders, batchVars, resp>>

\* the weekly sums and mean prices of a store that pass the filter are
\* powers of two, whatever the grouping: the values np_log is exact on
ExactLogs(store) ==
    \A by \in {<<"product_id">>, <<"customer_id">>, <<"customer_id", "product_id">>} :
        LET sample == FilterAgg(agg(store, by))
        IN  \A i \in 1..Len(sample) :
                /\ IsPowerOfTwo(sample[i].quantity)
                /\ IsPowerOfTwo(sample[i].sale_price[1])
                /\ IsPowerOfTwo(sample[i].sale_price[2])

-----------------------------------------------------------------------------
(* Specification *)

Init ==
    /\ orders \in SeqsUpTo(OrderRows, MaxOrders)
    /\ tables = EmptyTables
    /\ txn = EmptyTables
    /\ pc = "idle"
    /\ idx = 1
    /\ pti = 1
    /\ df_orders = <<>>
    /\ runs = 0
    /\ failure = "none"
    /\ resp = NoCall
    /\ model_out = NoModelRun

NextBatch ==
    \/ \E ok \in BOOLEAN : BatchStart(ok)
    \/ \E ok \in BOOLEAN : ProductStep(ok)
    \/ \E ok \in BOOLEAN : CustomerStep(ok)
    \/ \E ok \in BOOLEAN : PairStep(ok)
    \/ \E ok \in BOOLEAN : Commit(ok)

SpecBatch == Init /\ [][NextBatch]_vars

\* A single-query call reads orders and nothing else and leaves no state
\* behind, so a behaviour serves one request; the batch never reads resp, so
\* the two kinds of operation are checked apart.
NextQuery ==
    \/ CallProduct
    \/ CallCustomer
    \/ CallCustomerProduct
    \/ CallTool

SpecQuery == Init /\ [][NextQuery]_vars

\* the stores the weekly models are run on
InitWeekly ==
    /\ orders \in {s \in SeqsUpTo(WeeklyOrderRows, MaxOrders) : ExactLogs(s)}
    /\ tables = EmptyTables
    /\ txn = EmptyTables
    /\ pc = "idle"
    /\ idx = 1
    /\ pti = 1
    /\ df_orders = <<>>
    /\ runs = 0
    /\ failure = "none"
    /\ resp = NoCall
    /\ model_out = NoModelRun

\* A model run reads orders and returns a dataframe; like a single-query
\* call it leaves no state behind, so a behaviour runs one model.
NextWeekly ==
    \/ RunProductModel
    \/ RunCustomerModel
    \/ RunCustomerProductModel

SpecWeekly == InitWeekly /\ [][NextWeekly]_vars

Next == NextBatch \/ NextQuery \/ NextWeekly

Spec == Init /\ [][Next]_vars

-----------------------------------------------------------------------------
(* Properties *)

Loops == {"products", "customers", "pairs"}

BatchTables ==
    {"computed_product_elasticities", "computed_customer_elasticities",
     "computed_c_p_elasticities"}

\* the entity key of a results row, as <<customer_id, product_id>>
RowKey(table, row) ==
    CASE table = "computed_product_elasticities"  -> <<NULL, row.product_id>>
      [] table = "computed_customer_elasticities" -> <<row.customer_id, NULL>>
      [] table = "computed_c_p_elasticities"      -> <<row.customer_id, row.product_id>>

\* the keys one run has to cover, read off the store
KeysOf(table, store) ==
    CASE table = "computed_product_elasticities" ->
             {<<NULL, store[i].product_id>> : i \in 1..Len(store)} \ {<<NULL, NULL>>}
      [] table = "computed_customer_elasticities" ->
             {<<store[i].customer_id, NULL>> : i \in 1..Len(store)} \ {<<NULL, NULL>>}
      [] table = "computed_c_p_elasticities" ->
             {<<store[i].customer_id, store[i].product_id>> : i \in 1..Len(store)}

\* the transactions of a key: a product key <<NULL, p>> takes every
\* transaction of p, a customer key <<c, NULL>> every transaction of c, a pair
\* key those of both; a missing id in a pair key matches nothing
KeyHits(table, key, store) ==
    {i \in 1..Len(store) :
        CASE table = "computed_product_elasticities"  -> store[i].product_id = key[2]
          [] table = "computed_customer_elasticities" -> store[i].customer_id = key[1]
          [] table = "computed_c_p_elasticities" ->
                 /\ key[1] # NULL /\ key[2] # NULL
                 /\ store[i].customer_id = key[1] /\ store[i].product_id = key[2]}

\* among them, those with a positive quantity and a positive price
ValidHits(table, key, store, price_col) ==
    {i \in KeyHits(table, key, store) : store[i].quantity > 0 /\ store[i][price_col] > 0}

RowsFor(rows, table, key, pt) ==
    {j \in 1..Len(rows) : RowKey(table, rows[j]) = key /\ rows[j].price_type = pt}

\* C1: when the three loops of a run are over, the rows the run inserted hold,
\* for every entity key of the store and each price type, exactly one row and
\* nothing else; that row has a null elasticity when the key has fewer than
\* two valid points for the price type and a number otherwise.
C1_OneRowPerEntityAndPriceType ==
    pc = "commit" =>
        \A table \in BatchTables :
            /\ Len(txn[table]) = 2 * Cardinality(KeysOf(table, orders))
            /\ \A key \in KeysOf(table, orders) :
               \A pt \in {"regular_price", "sale_price"} :
                   /\ Cardinality(RowsFor(txn[table], table, key, pt)) = 1
                   /\ \A j \in RowsFor(txn[table], table, key, pt) :
                          (txn[table][j].elasticity = None)
                              <=> (Cardinality(ValidHits(table, key, orders, pt)) < 2)

\* a run whose product loop inserted a null row and a numeric row for the
\* same price type
C1_Witness ==
    /\ pc = "commit"
    /\ \E i, j \in 1..Len(txn.computed_product_elasticities) :
           /\ txn.computed_product_elasticities[i].price_type
                  = txn.computed_product_elasticities[j].price_type
           /\ txn.computed_product_elasticities[i].elasticity = None
           /\ txn.computed_product_elasticities[j].elasticity # None

TxnRows == Len(txn.computed_product_elasticities)
               + Len(txn.computed_customer_elasticities)
               + Len(txn.computed_c_p_elasticities)

\* a step of one of the three loops inserts its row and goes on, or ends
\* the run on a store failure
LoopStepOutcome ==
    pc \in Loops =>
        \/ /\ pc' \in Loops \cup {"commit"}
           /\ TxnRows' = TxnRows + 1
        \/ /\ pc' = "aborted"
           /\ failure' = "StoreUnavailable"

\* C2: a step of one of the three loops either inserts its row and goes on
\* to the next iteration (or to the final commit), whatever the estimator
\* did, or ends the run on a store failure; no other failure ends a run.
C2_EstimatorFailureNeverAborts == [][LoopStepOutcome]_vars

\* a run that committed after an estimate of its first product had failed
\* and the rows of later entities had been inserted
C2_Witness ==
    /\ pc = "done"
    /\ failure = "none"
    /\ Len(tables.computed_product_elasticities) >= 1
    /\ tables.computed_product_elasticities[1].elasticity = None
    /\ Len(tables.computed_customer_elasticities) >= 1
    /\ Len(tables.computed_c_p_elasticities) >= 1

\* C3 (as claimed): whatever the number of runs, no results table holds two
\* rows for the same entity key and price type.
C3_NoDuplicateRows ==
    \A table \in BatchTables :
        \A i, j \in 1..Len(tables[table]) :
            (/\ RowKey(table, tables[table][i]) = RowKey(table, tables[table][j])
             /\ tables[table][i].price_type = tables[table][j].price_type) => i = j

\* the transactions a single-query request selects, and the valid ones
Selected(store, args) ==
    {i \in 1..Len(store) :
        /\ (args.product_id # NULL => store[i].product_id = args.product_id)
        /\ (args.customer_id # NULL => store[i].customer_id = args.customer_id)}

ColumnOf(price_type) == IF price_type = "regular" THEN "regular_price" ELSE "sale_price"

ValidSelected(store, args) ==
    {i \in Selected(store, args) :
        store[i].quantity > 0 /\ store[i][ColumnOf(args.price_type)] > 0}

\* the same rows as a sequence, in the order of the store
SeqOf(store, S) == SelectSeq([i \in 1..Len(store) |-> [at |-> i, row |-> store[i]]],
                             LAMBDA x : x.at \in S)

RowsOf(store, S) == [k \in 1..Len(SeqOf(store, S)) |-> SeqOf(store, S)[k].row]

Served == resp.op # "none"
ValidPriceType == resp.args.price_type \in {"regular", "sale"}
StoreAnswered == resp.detail # "StoreUnavailable"
Succeeded == Served /\ resp.detail = ""

InsufficientText(op) ==
    IF op = "tool" THEN "Not enough data points to compute elasticity (need >= 2)."
    ELSE "Not enough valid data points to run the regression (need at least 2)."

\* C4: a request whose sample has fewer than two valid rows ends in the
\* insufficient-data error of its operation without any logarithm taken, and
\* the batch estimator raises ValueError on the same rows without any
\* logarithm taken (the tool answers so when the request selects a row; its
\* estimator is not reached when the request selects none).
C4_FewerThanTwoPointsIsInsufficientData ==
    (Served /\ ValidPriceType /\ StoreAnswered
        /\ Cardinality(ValidSelected(orders, resp.args)) < 2) =>
        /\ resp.logged = <<>>
        /\ resp.elasticity = None
        /\ resp.op # "tool" => resp.status = 400 /\ resp.detail = InsufficientText(resp.op)
        /\ (resp.op = "tool" /\ Selected(orders, resp.args) # {})
               => resp.status = 0 /\ resp.detail = InsufficientText("tool")
        /\ LET e == compute_price_elasticity(
                        RowsOf(orders, Selected(orders, resp.args)),
                        ColumnOf(resp.args.price_type))
           IN  e.raised = "ValueError" /\ e.logged = <<>>

\* a request served with exactly one valid row
C4_Witness ==
    /\ Served /\ ValidPriceType /\ StoreAnswered
    /\ Cardinality(ValidSelected(orders, resp.args)) = 1
    /\ resp.detail = InsufficientText(resp.op)

\* the entity has two valid points or more and a single price among them
Degenerate(table, key, store, price_col) ==
    /\ Cardinality(ValidHits(table, key, store, price_col)) >= 2
    /\ \A i, j \in ValidHits(table, key, store, price_col) :
           store[i][price_col] = store[j][price_col]

\* C5 (as claimed): an entity whose valid points all have the same price is
\* stored by the batch with a null elasticity.
C5_DegenerateStoredAsNull ==
    \A table \in BatchTables :
        \A j \in 1..Len(txn[table]) :
            Degenerate(table, RowKey(table, txn[table][j]), orders, txn[table][j].price_type)
                => txn[table][j].elasticity = None

\* C6: a request with a price type other than 'regular' and 'sale' gets the
\* invalid-price-type error of its operation, whatever the ids and the store,
\* and no query has been issued to the store.
C6_InvalidPriceTypeBeforeAnyRead ==
    (Served /\ ~ValidPriceType) =>
        /\ resp.reads = 0
        /\ resp.elasticity = None
        /\ resp.op = "tool" =>
               resp.detail = "Error: price_type must be 'regular' or 'sale'."
        /\ resp.op # "tool" =>
               resp.status = 400 /\ resp.detail = "price_type must be 'regular' or 'sale'"

\* a request for 'discount' on a key that has transactions
C6_Witness ==
    /\ Served
    /\ resp.args.price_type = "discount"
    /\ resp.args.product_id # NULL
    /\ Cardinality(Selected(orders, resp.args)) >= 2
    /\ resp.reads = 0

\* the requests an operation accepts
ArgSpace(op) ==
    CASE op = "product_elasticity" ->
             {Args(p, NULL, t) : p \in IdArgs, t \in {"regular", "sale"}}
      [] op = "customer_elasticity" ->
             {Args(NULL, c, t) : c \in IdArgs, t \in {"regular", "sale"}}
      [] op = "customer_product_elasticity" ->
             {Args(p, c, t) : p \in IdArgs, c \in IdArgs, t \in {"regular", "sale"}}
      [] op = "tool" ->
             {Args(p, c, t) : p \in OptionalIdArgs, c \in OptionalIdArgs,
                              t \in {"regular", "sale"}}

\* the answer of operation op to a request, the store being reachable
Serve(op, store, args) ==
    CASE op = "product_elasticity" ->
             get_product_elasticity(store, args.product_id, args.price_type, TRUE)
      [] op = "customer_elasticity" ->
             get_customer_elasticity(store, args.customer_id, args.price_type, TRUE)
      [] op = "customer_product_elasticity" ->
             get_customer_product_elasticity(store, args.customer_id, args.product_id,
                                             args.price_type, TRUE)
      [] op = "tool" ->
             ToolRun(store, args.product_id, args.customer_id, args.price_type, TRUE)

\* C7 (as claimed): the error a request gets when its key matches no
\* transaction differs from the error the same operation gives for a key
\* that matches transactions of which fewer than two are valid.
C7_NoMatchDistinctFromInsufficient ==
    (Served /\ ValidPriceType /\ StoreAnswered /\ Selected(orders, resp.args) = {}) =>
        \A other \in ArgSpace(resp.op) :
            (/\ Selected(orders, other) # {}
             /\ Cardinality(ValidSelected(orders, other)) < 2) =>
                LET r == Serve(resp.op, orders, other)
                IN  <<r.status, r.detail>> # <<resp.status, resp.detail>>

\* C8 (as claimed): the tool called without product_id and without
\* customer_id returns no elasticity.
C8_ToolNeedsAnId ==
    (resp.op = "tool" /\ resp.args.product_id = NULL /\ resp.args.customer_id = NULL)
        => resp.elasticity = None

\* the slope fitted on the valid rows a request selects
SlopeOf(store, args) ==
    FitLogLog(RowsOf(store, ValidSelected(store, args)), ColumnOf(args.price_type))

\* C9 (as claimed): a call that succeeds returns the signed slope itself and
\* echoes the ids and the price type of the request.
C9_RawSignedSlopeEchoed ==
    Succeeded =>
        /\ resp.elasticity = SlopeOf(orders, resp.args)
        /\ resp.echo = resp.args

\* v is a number of four decimals at most half a unit of the fourth decimal
\* from s
RoundedTo4(v, s) ==
    /\ 10000 % v[2] = 0
    /\ 20000 * AbsInt(v[1] * s[2] - s[1] * v[2]) <= v[2] * s[2]

\* C9 (amended): an endpoint that succeeds returns the signed slope itself;
\* the tool returns the signed slope rounded to four decimals; both echo the
\* ids and the price type of the request.
C9_SignedSlopeEchoed ==
    Succeeded =>
        /\ resp.op # "tool" => resp.elasticity = SlopeOf(orders, resp.args)
        /\ resp.op = "tool" => RoundedTo4(resp.elasticity, SlopeOf(orders, resp.args))
        /\ resp.echo = resp.args

\* the tool answered with a negative slope that has more than four decimals
C9_Witness ==
    /\ Succeeded
    /\ resp.op = "tool"
    /\ resp.args.product_id # NULL
    /\ SlopeOf(orders, resp.args)[1] < 0
    /\ resp.elasticity[1] < 0
    /\ resp.elasticity # SlopeOf(orders, resp.args)

StoredAbsOfNegative(table) ==
    \E j \in 1..Len(tables[table]) :
        LET row == tables[table][j]
            e   == api_compute_price_elasticity(
                       RowsOf(orders, KeyHits(table, RowKey(table, row), orders)),
                       row.price_type)
        IN  /\ row.elasticity # None
            /\ row.elasticity[1] > 0
            /\ e.raised = "none"
            /\ e.value[1] < 0

Exponents == {<<-1, 1>>, <<-2, 1>>, <<-3, 1>>, <<-1, 2>>, <<-1, 3>>, <<-2, 3>>}

\* the valid rows a request selects lie on quantity = C * price^k and show
\* two prices or more
OnPowerLaw(store, args, k) ==
    LET V   == ValidSelected(store, args)
        col == ColumnOf(args.price_type)
    IN  /\ \E i, j \in V : store[i][col] # store[j][col]
        /\ \A i, j \in V :
               (log(store[i].quantity) - log(store[j].quantity)) * k[2]
                   = k[1] * (log(store[i][col]) - log(store[j][col]))

\* the value the batch estimator returns on the rows a request selects
BatchValue(store, args) ==
    compute_price_elasticity(RowsOf(store, Selected(store, args)),
                             ColumnOf(args.price_type)).value

\* C12 (as claimed): on a sample that lies on a power law of exponent k < 0
\* the estimator returns |k|, in the batch and in the endpoints alike.
C12_RecoversAbsoluteExponent ==
    (Succeeded /\ resp.op # "tool") =>
        \A k \in Exponents :
            OnPowerLaw(orders, resp.args, k) =>
                /\ BatchValue(orders, resp.args) = AbsRat(k)
                /\ resp.elasticity = AbsRat(k)

\* C12 (amended): on a sample that lies on a power law of exponent k < 0 the
\* batch estimator returns |k| and the endpoint estimator returns k itself.
C12_RecoversExponent ==
    (Succeeded /\ resp.op # "tool") =>
        \A k \in Exponents :
            OnPowerLaw(orders, resp.args, k) =>
                /\ BatchValue(orders, resp.args) = AbsRat(k)
                /\ resp.elasticity = k

\* an endpoint served on three valid points of one power law
C12_Witness ==
    /\ Succeeded
    /\ resp.op # "tool"
    /\ Cardinality(ValidSelected(orders, resp.args)) = 3
    /\ \E k \in Exponents : OnPowerLaw(orders, resp.args, k)

\* the ids of the store
StoreIds == {1, 2}

\* the rows of a run's pair table for customer c and product p
PairRows(c, p) ==
    {j \in 1..Len(txn.computed_c_p_elasticities) :
        /\ txn.computed_c_p_elasticities[j].customer_id = c
        /\ txn.computed_c_p_elasticities[j].product_id = p}

\* C13: when the loops of a run are over, the pair table of the run has rows
\* for customer c and product p exactly when some transaction has both, and
\* then one row per price type.
C13_PairsAreTheObservedPairs ==
    pc = "commit" =>
        \A c \in StoreIds, p \in StoreIds :
            IF \E i \in 1..Len(orders) :
                   orders[i].customer_id = c /\ orders[i].product_id = p
            THEN /\ Cardinality(PairRows(c, p)) = 2
                 /\ \A pt \in {"regular_price", "sale_price"} :
                        \E j \in PairRows(c, p) :
                            txn.computed_c_p_elasticities[j].price_type = pt
            ELSE PairRows(c, p) = {}

\* a run over a store where customer 1 and product 1 both occur, never
\* together, while other pairs are observed
C13_Witness ==
    /\ pc = "commit"
    /\ \E i \in 1..Len(orders) : orders[i].customer_id = 1
    /\ \E i \in 1..Len(orders) : orders[i].product_id = 1
    /\ ~\E i \in 1..Len(orders) : orders[i].customer_id = 1 /\ orders[i].product_id = 1
    /\ PairRows(1, 1) = {}
    /\ PairRows(1, 2) # {}
    /\ PairRows(2, 1) # {}

\* the (quantity, price) rows of a request's transactions in S, in the order
\* of the store
Projected(store, S, args) ==
    LET rows == RowsOf(store, S)
    IN  [k \in 1..Len(rows) |->
            [quantity |-> rows[k].quantity, price |-> rows[k][ColumnOf(args.price_type)]]]

\* C14: when an estimator takes logarithms, the rows it takes them of are the
\* rows of its input with quantity > 0 and price > 0, all of them and in the
\* order of the input, in the endpoints, the tool and the batch estimator;
\* with fewer than two such rows no logarithm is taken.
C14_LoggedRowsAreTheValidRows ==
    (Served /\ ValidPriceType /\ StoreAnswered) =>
        LET V == ValidSelected(orders, resp.args)
            e == compute_price_elasticity(RowsOf(orders, Selected(orders, resp.args)),
                                          ColumnOf(resp.args.price_type))
        IN  /\ resp.logged = IF Cardinality(V) >= 2
                             THEN Projected(orders, V, resp.args) ELSE <<>>
            /\ e.logged = IF Cardinality(V) >= 2 THEN RowsOf(orders, V) ELSE <<>>
            /\ \A k \in 1..Len(resp.logged) :
                   resp.logged[k].quantity > 0 /\ resp.logged[k].price > 0

\* a call that took logarithms after the filter had removed a row
C14_Witness ==
    /\ Succeeded
    /\ Len(resp.logged) >= 2
    /\ Cardinality(Selected(orders, resp.args)) > Len(resp.logged)

\* C15: the sample filter is idempotent: filtering a filtered sample returns
\* it unchanged (same rows, same order), for the batch's samples on either
\* price column and for the samples of the single-query operations.
C15_FilterIdempotent ==
    /\ \A price_col \in {"regular_price", "sale_price"} :
           FilterSample(FilterSample(orders, price_col), price_col)
               = FilterSample(orders, price_col)
    /\ (Served /\ ValidPriceType /\ StoreAnswered) =>
           LET col  == PriceCol(resp.args.price_type)
               rows == SelectOrders(orders, resp.args.product_id,
                                    resp.args.customer_id, col)
           IN  /\ FilterSample(FilterSample(rows, "price"), "price")
                      = FilterSample(rows, "price")
               /\ FilterSample(resp.logged, "price") = resp.logged

\* a served request whose filter kept at least two rows of a store and
\* removed at least one
C15_Witness ==
    /\ Served
    /\ resp.logged # <<>>
    /\ \E price_col \in {"regular_price", "sale_price"} :
           /\ Len(FilterSample(orders, price_col)) >= 2
           /\ Len(FilterSample(orders, price_col)) < Len(orders)

\* the three key shapes: a product, a customer, or both
KeyShape(args) == args.product_id # NULL \/ args.customer_id # NULL

\* C16: for each of the three key shapes the unfiltered sample is the
\* transactions that match the key, one row per transaction and in the order
\* of the store: those of the product, those of the customer, or those that
\* match both ids; in the single-query operations and in the batch's loops.
C16_SampleIsTheMatchingTransactions ==
    /\ (Served /\ ValidPriceType /\ KeyShape(resp.args)) =>
           SelectOrders(orders, resp.args.product_id, resp.args.customer_id,
                        PriceCol(resp.args.price_type))
               = Projected(orders, Selected(orders, resp.args), resp.args)
    /\ \A p \in StoreIds :
           df_prod(orders, p) = RowsOf(orders, Selected(orders, Args(p, NULL, "sale")))
    /\ \A c \in StoreIds :
           df_cust(orders, c) = RowsOf(orders, Selected(orders, Args(NULL, c, "sale")))
    /\ \A c \in StoreIds, p \in StoreIds :
           df_sub(orders, c, p) = RowsOf(orders, Selected(orders, Args(p, c, "sale")))

\* a request with both ids answered on a store that also holds a transaction
\* of the product by another customer and one of the customer for another
\* product
C16_Witness ==
    /\ Served /\ ValidPriceType /\ StoreAnswered
    /\ resp.args.product_id # NULL /\ resp.args.customer_id # NULL
    /\ Selected(orders, resp.args) # {}
    /\ Selected(orders, Args(resp.args.product_id, NULL, "sale"))
           # Selected(orders, resp.args)
    /\ Selected(orders, Args(NULL, resp.args.customer_id, "sale"))
           # Selected(orders, resp.args)

\* a step that ends a run on a failure persists nothing and starts nothing
\* again; the results tables change in the final commit only
FailedStepOutcome ==
    /\ (pc' = "aborted" /\ pc # "aborted") =>
           /\ failure' # "none"
           /\ tables' = tables
           /\ txn' = EmptyTables
           /\ (pc # "idle" /\ pc # "done") => runs' = runs
    /\ tables' # tables => (pc = "commit" /\ pc' = "done")
    /\ pc = "aborted" => (pc' # "aborted" => runs' = runs + 1)

\* C17: a store failure during a run (on the read, on an insert or on the
\* commit) ends the run with the failure, nothing is tried again within the
\* run, and no row of the run is persisted: rows reach the results tables in
\* the final commit only, so a failed run leaves the tables as they were.
C17_FailedRunPersistsNothing == [][FailedStepOutcome]_vars

\* a second run that failed on the store after the first had committed: the
\* tables hold the rows of the first run and nothing else
C17_Witness ==
    /\ pc = "aborted"
    /\ failure = "StoreUnavailable"
    /\ runs = 2
    /\ txn = EmptyTables
    /\ KeysOf("computed_product_elasticities", orders) # {}
    /\ Len(tables.computed_product_elasticities)
           = 2 * Cardinality(KeysOf("computed_product_elasticities", orders))

\* a stored row without its AUTOINCREMENT id
StripId(row) == [f \in (DOMAIN row) \ {"id"} |-> row[f]]

\* the number of rows one complete run writes to a table
RowsOfOneRun(table) == Len(price_types) * Cardinality(KeysOf(table, orders))

\* every step keeps the rows a table holds, in place; the step that commits
\* a run appends the rows of one run, the same rows as the run before it
AppendOnlyStep ==
    \A table \in BatchTables :
        LET old == tables[table]
            new == tables'[table]
            n   == RowsOfOneRun(table)
        IN  /\ Len(new) >= Len(old)
            /\ SubSeq(new, 1, Len(old)) = old
            /\ (pc = "commit" /\ pc' = "done") =>
                   /\ Len(new) = Len(old) + n
                   /\ \A i \in 1..Len(old) :
                          StripId(new[i + n]) = StripId(new[((i - 1) % n) + 1])

C20_StoredPriceTypeIsQueryPriceType ==
    \A table \in BatchTables :
        \A i \in 1..Len(tables[table]) :
            ~InvalidPriceType(tables[table][i].price_type)

\* a model has run and returned
ModelRan == model_out.model # "none" /\ model_out.failure = "none"

\* the transactions of an entity in a week
Members(store, by, key, week) ==
    {i \in 1..Len(store) :
        /\ \A c \in 1..Len(by) : store[i][by[c]] = key[c]
        /\ to_period_W(store[i].timestamp) = week}

RECURSIVE SumOver(_, _, _)
SumOver(S, store, col) ==
    IF S = {} THEN 0
    ELSE LET i == CHOOSE j \in S : TRUE
         IN  store[i][col] + SumOver(S \ {i}, store, col)

\* the entities of a store under a grouping: keys without a missing id
EntitiesOf(store, by) ==
    {key \in {KeyOf(store[i], by) : i \in 1..Len(store)} :
        \A c \in 1..Len(by) : key[c] # NULL}

WeeksOf(store) == {to_period_W(store[i].timestamp) : i \in 1..Len(store)}

\* C18: the aggregate a weekly model builds has, for every entity, exactly
\* one row per calendar week in which the entity has a transaction, and no
\* other row; the row's quantity is the sum of the quantities of all these
\* transactions and its price the mean of their sale prices, transactions of
\* non-positive quantity or price included; the rows the model takes
\* logarithms of are the aggregated rows with quantity > 0 and price > 0.
C18_WeeklySampleIsAggregatedThenFiltered ==
    ModelRan =>
        LET by == model_out.by
            a  == model_out.agg
        IN  /\ \A key \in EntitiesOf(orders, by), week \in WeeksOf(orders) :
                   LET M == Members(orders, by, key, week)
                       R == {k \in 1..Len(a) : a[k].key = key /\ a[k].week = week}
                   IN  IF M = {} THEN R = {}
                       ELSE /\ Cardinality(R) = 1
                            /\ \A k \in R :
                                   /\ a[k].quantity = SumOver(M, orders, "quantity")
                                   /\ a[k].sale_price[1] * Cardinality(M)
                                          = SumOver(M, orders, "sale_price") * a[k].sale_price[2]
            /\ \A k \in 1..Len(a) : a[k].key \in EntitiesOf(orders, by)
            /\ model_out.sample
                   = SelectSeq(a, LAMBDA r : r.quantity > 0 /\ r.sale_price[1] > 0)

\* a run in which a transaction of non-positive quantity or price went into
\* a weekly row that passed the filter, next to a weekly row that did not
C18_Witness ==
    /\ ModelRan
    /\ Len(model_out.sample) < Len(model_out.agg)
    /\ \E i \in 1..Len(orders), k \in 1..Len(model_out.sample) :
           /\ orders[i].quantity <= 0 \/ orders[i].sale_price <= 0
           /\ model_out.sample[k].key = KeyOf(orders[i], model_out.by)
           /\ model_out.sample[k].week = to_period_W(orders[i].timestamp)

\* the price type a caller passes for the column a batch row is labelled with
QueryPriceType(pt) == IF pt = "regular_price" THEN "regular" ELSE "sale"

\* the single-query operations that take the key of a table
OpsOf(table) ==
    CASE table = "computed_product_elasticities"  -> {"product_elasticity", "tool"}
      [] table = "computed_customer_elasticities" -> {"customer_elasticity", "tool"}
      [] table = "computed_c_p_elasticities"      -> {"customer_product_elasticity", "tool"}

\* the request for the key and price type of a batch row
RequestOf(table, row) ==
    Args(RowKey(table, row)[2], RowKey(table, row)[1], QueryPriceType(row.price_type))

\* a key a single-query request can name: no id of the key is missing
Askable(table, row) ==
    table = "computed_c_p_elasticities" => (row.customer_id # NULL /\ row.product_id # NULL)

\* C21 (as claimed): for every key the batch enumerated that a request can
\* name, and either price type, the batch row is null exactly when the
\* single-query operation for the same key and price type returns an error,
\* and otherwise holds the absolute value of the coefficient it returns.
C21_BatchEqualsAbsOfQuery ==
    pc = "commit" =>
        \A table \in BatchTables :
            \A j \in 1..Len(txn[table]) :
                Askable(table, txn[table][j]) =>
                    \A op \in OpsOf(table) :
                        LET row == txn[table][j]
                            r   == Serve(op, orders, RequestOf(table, row))
                        IN  /\ (row.elasticity = None) <=> (r.detail # "")
                            /\ r.detail = "" => row.elasticity = AbsRat(r.elasticity)

\* C21 (amended): the batch row of such a key is null exactly when the
\* single-query operation returns an error; otherwise it holds the absolute
\* value of the coefficient an endpoint returns, and the coefficient the tool
\* returns is, in absolute value, the stored value rounded to four decimals.
\* A pair row with a missing id, which no request can name, is null.
C21_BatchAgreesWithQuery ==
    pc = "commit" =>
        \A table \in BatchTables :
            \A j \in 1..Len(txn[table]) :
                LET row == txn[table][j]
                IN  IF ~Askable(table, row) THEN row.elasticity = None
                    ELSE \A op \in OpsOf(table) :
                             LET r == Serve(op, orders, RequestOf(table, row))
                             IN  /\ (row.elasticity = None) <=> (r.detail # "")
                                 /\ (r.detail = "" /\ op # "tool") =>
                                        row.elasticity = AbsRat(r.elasticity)
                                 /\ (r.detail = "" /\ op = "tool") =>
                                        RoundedTo4(AbsRat(r.elasticity), row.elasticity)

\* a run that stored, for the regular price of a product, a number the tool
\* shows rounded and, for another key, a null
C21_Witness ==
    /\ pc = "commit"
    /\ \E j \in 1..Len(txn.computed_product_elasticities) :
           LET row == txn.computed_product_elasticities[j]
               r   == Serve("tool", orders, RequestOf("computed_product_elasticities", row))
           IN  /\ row.elasticity # None
               /\ row.price_type = "regular_price"
               /\ r.elasticity[1] < 0
               /\ AbsRat(r.elasticity) # row.elasticity
    /\ \E j \in 1..Len(txn.computed_c_p_elasticities) :
           /\ Askable("computed_c_p_elasticities", txn.computed_c_p_elasticities[j])
           /\ txn.computed_c_p_elasticities[j].elasticity = None

\* C22 (as claimed): no row the batch wrote or inserted has a missing id in
\* its entity key (the product id of a product row, the customer id of a
\* customer row, both ids of a pair row), and the key of every such row
\* matches at least one transaction.
C22_NoNullIdInAnyKey ==
    \A table \in BatchTables :
        \A rows \in {tables[table], txn[table]} :
            \A j \in 1..Len(rows) :
                /\ table # "computed_customer_elasticities" => rows[j].product_id # NULL
                /\ table # "computed_product_elasticities" => rows[j].customer_id # NULL
                /\ KeyHits(table, RowKey(table, rows[j]), orders) # {}

\* the weeks of an entity whose summed quantity and mean price are positive
ValidWeeks(store, by, key) ==
    {week \in WeeksOf(store) :
        LET M == Members(store, by, key, week)
        IN  /\ M # {}
            /\ SumOver(M, store, "quantity") > 0
            /\ SumOver(M, store, "sale_price") > 0}

\* C23 (as claimed): the dataframe a weekly model returns has exactly one row
\* for every entity that has a transaction, with a number when the entity has
\* two valid weeks or more and a null otherwise, also when it has none.
C23_EveryEntityInOutput ==
    ModelRan =>
        \A key \in EntitiesOf(orders, model_out.by) :
            LET R == {k \in 1..Len(model_out.results) : model_out.results[k].key = key}
            IN  /\ Cardinality(R) = 1
                /\ \A k \in R :
                       (model_out.results[k].elasticity = None)
                           <=> (Cardinality(ValidWeeks(orders, model_out.by, key)) < 2)

\* the estimate of a key for one price column, from all the transactions of
\* the key and that column alone
EstimateOf(table, key, store, price_col) ==
    LET V == ValidHits(table, key, store, price_col)
    IN  IF Cardinality(V) < 2 THEN None
        ELSE AbsRat(FitLogLog(RowsOf(store, V), price_col))

\* C24: the two estimates of an entity are independent: each row of a run
\* holds the estimate made from all the transactions of its key that are
\* valid for its own price column, whether or not they are valid for the
\* other column, and whatever the estimate for the other column came to.
C24_PriceTypesIndependent ==
    pc = "commit" =>
        \A table \in BatchTables :
            \A j \in 1..Len(txn[table]) :
                txn[table][j].elasticity
                    = EstimateOf(table, RowKey(table, txn[table][j]), orders,
                                 txn[table][j].price_type)

\* a run over a product with a transaction that has no regular price: its
\* regular-price estimate failed, and its sale-price estimate is a number
\* that needed that transaction
C24_Witness ==
    /\ pc = "commit"
    /\ \E j, k \in 1..Len(txn.computed_product_elasticities) :
           LET a   == txn.computed_product_elasticities[j]
               b   == txn.computed_product_elasticities[k]
               key == <<NULL, a.product_id>>
               t   == "computed_product_elasticities"
           IN  /\ a.product_id = b.product_id
               /\ a.price_type = "regular_price" /\ a.elasticity = None
               /\ b.price_type = "sale_price" /\ b.elasticity # None
               /\ Cardinality(ValidHits(t, key, orders, "sale_price")) = 2
               /\ \E i \in ValidHits(t, key, orders, "sale_price") :
                      orders[i].regular_price <= 0

=============================================================================
